---- MODULE Spec2Model ----
(***************************************************************************)
(* Stellar Duels: a two-player, stake-backed commit-reveal duel contract   *)
(* (src/src/lib.rs).  The state is the contract's persistent storage       *)
(* (GameCounter, Game(id), Player(addr), ActiveGames) together with the    *)
(* token ledgers the contract transfers on.  Every contract entry point is *)
(* an operator from a world (storage + ledgers) to the world the           *)
(* invocation leaves behind, written statement by statement; a panic stops *)
(* the invocation at the statement that raised it.  The host commits the   *)
(* writes of an invocation only when it returns normally.                  *)
(*                                                                         *)
(* require_auth is taken as granted: the player argument of a call is its  *)
(* caller.  Amounts and counters are unbounded integers: the stakes and    *)
(* the number of games stay far below the i128 and u32 limits.  An absent  *)
(* ActiveGames entry reads as the empty vector (unwrap_or(Vec::new)), so   *)
(* the two are one value here.                                             *)
(***************************************************************************)
EXTENDS Integers, Sequences, FiniteSets, TLC

(* ----------------------------- bounds ---------------------------------- *)
NumAddr == 3
NumTokens == 2
MaxGames == 2
SoloGames == 1
MaxStake == 2
NumSalts == 2
InitBalance == 2

(* --------------------------- value domains ----------------------------- *)
Contract == 0
Addresses == 1..NumAddr
Holders == {Contract} \cup Addresses
Tokens == 1..NumTokens
Salts == 0..(NumSalts - 1)
StakeChoices == (-1)..MaxStake

Attack == 1
Defense == 2
Magic == 3
Moves == {Attack, Defense, Magic}
MoveChoices == 0..(Magic + 1)

WaitingForPlayer == "WaitingForPlayer"
MovesCommitted == "MovesCommitted"
Completed == "Completed"

Min(S) == CHOOSE x \in S : \A y \in S : x <= y

\* Option<T>: None is the empty sequence, Some(x) the one-element sequence.
None == <<>>
Some(x) == <<x>>
is_some(o) == o # None
is_none(o) == o = None
unwrap(o) == o[1]

\* BytesN::from_array(&env, &[0u8; 32])
ZeroCommitment == 0

(* ------------------------- commitment codec ---------------------------- *)
\* SHA-256 over the 36-byte block move_id(4, big-endian) || salt(32).  The
\* block has a fixed layout, so it is the pair <<move_id, salt>>; the hash is
\* taken collision-free on these blocks and never all-zero.
sha256(data) == 1 + data[1] + Cardinality(MoveChoices) * data[2]

\* Variant: the move bytes are left out of the hashed block.
calculate_commitment_salt_only(move_id, salt) ==
    LET data == <<0, salt>>
    IN  sha256(data)

calculate_commitment(move_id, salt) ==
    LET data == <<move_id, salt>>
    IN  sha256(data)

\* The 32-byte values a caller submits to commit_move: the zero value and
\* the digest of every (move, salt) pair.
CommitChoices ==
    {ZeroCommitment} \cup {calculate_commitment(m, s) : m \in Moves, s \in Salts}

(* ------------------------------ state ---------------------------------- *)
VARIABLES
    gameCounter,    \* DataKey::GameCounter : Option<u64>
    games,          \* DataKey::Game(id)    : id -> Game, for the stored ids
    players,        \* DataKey::Player(a)   : address -> Player, for the stored ones
    activeGames,    \* DataKey::ActiveGames : Vec<u64>
    balances,       \* token -> holder -> amount, the token contracts' ledgers
    escrowLog,      \* history: per game and token, amounts paid in and out
    commitLog,      \* history: per game and slot, successful commit_move calls and reveal salts
    createLog,      \* history: the ids returned by the successful create_game calls, in order
    last            \* the last invocation and its outcome

vars == <<gameCounter, games, players, activeGames, balances, escrowLog, commitLog,
          createLog, last>>

storage == <<gameCounter, games, players, activeGames, balances>>

\* The world an invocation runs in: storage, ledgers, and what the
\* invocation has done so far (err # "" after a panic).
World ==
    [counter |-> gameCounter, games |-> games, players |-> players,
     active |-> activeGames, balances |-> balances,
     xfers |-> <<>>, ret |-> None, err |-> ""]

panic(w, msg) == [w EXCEPT !.err = msg]

(* --------------------------- token client ------------------------------ *)
\* Variant: a failed transfer is ignored (try_transfer with the result dropped).
transfer_ignoring_failure(w, token_address, from, to, amount) ==
    IF amount < 0 \/ w.balances[token_address][from] < amount
    THEN w
    ELSE [w EXCEPT !.balances[token_address] =
                       [h \in Holders |->
                           @[h] - (IF h = from THEN amount ELSE 0)
                                + (IF h = to THEN amount ELSE 0)],
                   !.xfers = Append(@, [token |-> token_address, from |-> from,
                                        to |-> to, amount |-> amount])]

\* token::Client::transfer(from, to, amount): moves amount, or fails (and
\* with it the whole invocation) on a negative amount or a short balance.
transfer(w, token_address, from, to, amount) ==
    IF amount < 0 \/ w.balances[token_address][from] < amount
    THEN panic(w, "transfer failed")
    ELSE [w EXCEPT !.balances[token_address] =
                       [h \in Holders |->
                           @[h] - (IF h = from THEN amount ELSE 0)
                                + (IF h = to THEN amount ELSE 0)],
                   !.xfers = Append(@, [token |-> token_address, from |-> from,
                                        to |-> to, amount |-> amount])]

(* --------------------------- private helpers --------------------------- *)
\* The id the next get_and_increment_counter returns.
next_game_id(w) == IF is_some(w.counter) THEN unwrap(w.counter) ELSE 1

\* Variant: the incremented counter is not written back.
get_and_increment_counter_not_stored(w) ==
    [w EXCEPT !.ret = Some(next_game_id(w))]

get_and_increment_counter(w) ==
    LET counter == next_game_id(w)
    IN  [w EXCEPT !.counter = Some(counter + 1), !.ret = Some(counter)]

add_to_active_games(w, game_id) ==
    [w EXCEPT !.active = Append(@, game_id)]

\* Variant: the oldest entry is dropped (pop_front) whatever its id.
remove_from_active_games_oldest(w, game_id) ==
    [w EXCEPT !.active = IF @ = <<>> THEN @ ELSE Tail(@)]

remove_from_active_games(w, game_id) ==
    [w EXCEPT !.active = SelectSeq(@, LAMBDA id : id # game_id)]

\* Variant: the third row of the table is missing.
determine_winner_two_rows(game, p1_move, p2_move) ==
    IF p1_move = p2_move
    THEN None
    ELSE LET p1_wins == \/ <<p1_move, p2_move>> = <<1, 2>>
                        \/ <<p1_move, p2_move>> = <<2, 3>>
         IN  IF p1_wins THEN Some(game.player_one) ELSE game.player_two

\* Variant: the third row of the table is written (1, 3) for (3, 1).
determine_winner_swapped_row(game, p1_move, p2_move) ==
    IF p1_move = p2_move
    THEN None
    ELSE LET p1_wins == \/ <<p1_move, p2_move>> = <<1, 2>>
                        \/ <<p1_move, p2_move>> = <<2, 3>>
                        \/ <<p1_move, p2_move>> = <<1, 3>>
         IN  IF p1_wins THEN Some(game.player_one) ELSE game.player_two

determine_winner(game, p1_move, p2_move) ==
    IF p1_move = p2_move
    THEN None
    ELSE LET p1_wins == \/ <<p1_move, p2_move>> = <<1, 2>>
                        \/ <<p1_move, p2_move>> = <<2, 3>>
                        \/ <<p1_move, p2_move>> = <<3, 1>>
         IN  IF p1_wins THEN Some(game.player_one) ELSE game.player_two

\* Variant: the won flag is ignored and every call counts a win.
update_player_stats_always_won(w, player_addr, won) ==
    IF player_addr \notin DOMAIN w.players
    THEN panic(w, "Player not found")
    ELSE [w EXCEPT !.players[player_addr].wins = @ + 1]

update_player_stats(w, player_addr, won) ==
    IF player_addr \notin DOMAIN w.players
    THEN panic(w, "Player not found")
    ELSE IF won
         THEN [w EXCEPT !.players[player_addr].wins = @ + 1]
         ELSE [w EXCEPT !.players[player_addr].losses = @ + 1]

\* Variant: a draw is counted as a loss.
increment_draws_as_loss(w, player_addr) ==
    IF player_addr \notin DOMAIN w.players
    THEN panic(w, "Player not found")
    ELSE [w EXCEPT !.players[player_addr].losses = @ + 1]

increment_draws(w, player_addr) ==
    IF player_addr \notin DOMAIN w.players
    THEN panic(w, "Player not found")
    ELSE [w EXCEPT !.players[player_addr].draws = @ + 1]

\* env.storage().persistent().set(&DataKey::Game(game_id), &game)
set_game(w, game_id, game) ==
    [w EXCEPT !.games = [g \in DOMAIN @ \cup {game_id} |->
                            IF g = game_id THEN game ELSE @[g]]]

(* ------------------------------ asserts -------------------------------- *)
\* Variant: the self-play check is dropped.
is_opponent_anyone(player, game) == TRUE

\* assert!(player != game.player_one, "Cannot play against yourself")
is_opponent(player, game) == player # game.player_one

\* Variant: the second player is taken to be present.
has_second_player_assumed(game) == TRUE

\* assert!(game.player_two.is_some(), "Waiting for second player")
has_second_player(game) == is_some(game.player_two)

\* Variant: one non-zero slot is enough (|| for &&).
both_committed_either(game, zero_commitment) ==
    game.p1_commitment # zero_commitment \/ game.p2_commitment # zero_commitment

\* if game.p1_commitment != zero_commitment && game.p2_commitment != zero_commitment
both_committed(game, zero_commitment) ==
    game.p1_commitment # zero_commitment /\ game.p2_commitment # zero_commitment

\* Variant: the state check of reveal_move is dropped.
ready_for_reveals_any_state(game) == TRUE

\* Variant: reveal_move also refuses once player two has revealed.
ready_for_reveals_before_p2(game) == game.state = MovesCommitted /\ game.p2_move = 0

\* Variant: reveal_move only refuses a game that is still waiting.
ready_for_reveals_not_waiting(game) == game.state # WaitingForPlayer

\* assert_eq!(game.state, GameState::MovesCommitted, "Not ready for reveals")
ready_for_reveals(game) == game.state = MovesCommitted

\* Variant: reveal_move accepts a reveal whatever the stored commitment.
commitment_matches_unchecked(calculated_commitment, stored) == TRUE

\* assert_eq!(calculated_commitment, game.p*_commitment, "Move does not match commitment")
commitment_matches(calculated_commitment, stored) == calculated_commitment = stored

\* Variant: finalize_game only refuses a game that is still waiting.
ready_to_finalize_not_waiting(game) == game.state # WaitingForPlayer

\* assert_eq!(game.state, GameState::MovesCommitted, "Game not ready to finalize")
ready_to_finalize(game) == game.state = MovesCommitted

\* Variant: the comparison admits the "not revealed" value 0.
has_revealed_or_zero(move) == move >= 0

\* assert!(game.p*_move > 0, "Player * hasn't revealed")
has_revealed(move) == move > 0

\* Variant: the pot is a single stake.
total_pot_one_stake(game) == game.stake_amount

\* let total_pot = game.stake_amount * 2
total_pot(game) == game.stake_amount * 2

(* ---------------------------- entry points ----------------------------- *)
\* Variant: the stored profile is not looked up; a fresh one is always written.
register_player_always_new(w, player) ==
    LET new_player == [address |-> player, wins |-> 0, losses |-> 0, draws |-> 0]
    IN  [w EXCEPT !.players = [a \in DOMAIN @ \cup {player} |->
                                  IF a = player THEN new_player ELSE @[a]],
                  !.ret = Some(new_player)]

register_player(w, player) ==
    IF player \in DOMAIN w.players
    THEN [w EXCEPT !.ret = Some(w.players[player])]
    ELSE LET new_player == [address |-> player, wins |-> 0, losses |-> 0, draws |-> 0]
         IN  [w EXCEPT !.players = [a \in DOMAIN @ \cup {player} |->
                                       IF a = player THEN new_player ELSE @[a]],
                       !.ret = Some(new_player)]

create_game(w, creator, stake_amount, token_address) ==
    IF creator \notin DOMAIN w.players
    THEN panic(w, "Player must be registered first")
    ELSE LET w1 == get_and_increment_counter(w)
             game_id == unwrap(w1.ret)
             w2 == transfer(w1, token_address, creator, Contract, stake_amount)
             game == [game_id |-> game_id,
                      player_one |-> creator,
                      player_two |-> None,
                      stake_amount |-> stake_amount,
                      state |-> WaitingForPlayer,
                      p1_commitment |-> ZeroCommitment,
                      p2_commitment |-> ZeroCommitment,
                      p1_move |-> 0,
                      p2_move |-> 0,
                      winner |-> None]
         IN  IF w2.err # ""
             THEN w2
             ELSE [add_to_active_games(set_game(w2, game_id, game), game_id)
                      EXCEPT !.ret = Some(game_id)]

join_game(w, game_id, player, token_address) ==
    IF game_id \notin DOMAIN w.games
    THEN panic(w, "Game not found")
    ELSE LET game == w.games[game_id]
         IN  IF game.state # WaitingForPlayer
             THEN panic(w, "Game is not accepting players")
             ELSE IF ~is_none(game.player_two)
             THEN panic(w, "Game already has two players")
             ELSE IF ~is_opponent(player, game)
             THEN panic(w, "Cannot play against yourself")
             ELSE IF player \notin DOMAIN w.players
             THEN panic(w, "Player must be registered first")
             ELSE LET w1 == transfer(w, token_address, player, Contract, game.stake_amount)
                      joined == [game EXCEPT !.player_two = Some(player)]
                  IN  IF w1.err # ""
                      THEN w1
                      ELSE [set_game(w1, game_id, joined) EXCEPT !.ret = Some(joined)]

\* The record stored under game_id, None when there is none; never fails.
get_game(w, game_id) ==
    [w EXCEPT !.ret = IF game_id \in DOMAIN w.games
                      THEN Some(w.games[game_id])
                      ELSE None]

commit_move(w, game_id, player, commitment) ==
    IF game_id \notin DOMAIN w.games
    THEN panic(w, "Game not found")
    ELSE LET game == w.games[game_id]
             zero_commitment == ZeroCommitment
             advance(g) ==
                 IF both_committed(g, zero_commitment)
                 THEN [g EXCEPT !.state = MovesCommitted]
                 ELSE g
             save(g) == [set_game(w, game_id, advance(g)) EXCEPT !.ret = Some(advance(g))]
         IN  IF ~has_second_player(game)
             THEN panic(w, "Waiting for second player")
             ELSE IF player = game.player_one
             THEN IF game.p1_commitment # zero_commitment
                  THEN panic(w, "Player 1 already committed")
                  ELSE save([game EXCEPT !.p1_commitment = commitment])
             ELSE IF Some(player) = game.player_two
             THEN IF game.p2_commitment # zero_commitment
                  THEN panic(w, "Player 2 already committed")
                  ELSE save([game EXCEPT !.p2_commitment = commitment])
             ELSE panic(w, "Player not in this game")

reveal_move(w, game_id, player, move_choice, salt) ==
    IF game_id \notin DOMAIN w.games
    THEN panic(w, "Game not found")
    ELSE LET game == w.games[game_id]
             calculated_commitment == calculate_commitment(move_choice, salt)
             save(g) == [set_game(w, game_id, g) EXCEPT !.ret = Some(g)]
         IN  IF ~ready_for_reveals(game)
             THEN panic(w, "Not ready for reveals")
             ELSE IF ~(move_choice >= 1 /\ move_choice <= 3)
             THEN panic(w, "Invalid move (must be 1, 2, or 3)")
             ELSE IF player = game.player_one
             THEN IF ~(game.p1_commitment # ZeroCommitment)
                  THEN panic(w, "No commitment found")
                  ELSE IF ~commitment_matches(calculated_commitment, game.p1_commitment)
                  THEN panic(w, "Move does not match commitment")
                  ELSE save([game EXCEPT !.p1_move = move_choice])
             ELSE IF Some(player) = game.player_two
             THEN IF ~(game.p2_commitment # ZeroCommitment)
                  THEN panic(w, "No commitment found")
                  ELSE IF ~commitment_matches(calculated_commitment, game.p2_commitment)
                  THEN panic(w, "Move does not match commitment")
                  ELSE save([game EXCEPT !.p2_move = move_choice])
             ELSE panic(w, "Player not in this game")

finalize_game(w, game_id, token_address) ==
    IF game_id \notin DOMAIN w.games
    THEN panic(w, "Game not found")
    ELSE LET stored == w.games[game_id]
         IN  IF ~ready_to_finalize(stored)
             THEN panic(w, "Game not ready to finalize")
             ELSE IF ~has_revealed(stored.p1_move)
             THEN panic(w, "Player 1 hasn't revealed")
             ELSE IF ~has_revealed(stored.p2_move)
             THEN panic(w, "Player 2 hasn't revealed")
             ELSE LET winner_addr == determine_winner(stored, stored.p1_move, stored.p2_move)
                      game == [stored EXCEPT !.winner = winner_addr, !.state = Completed]
                      pot == total_pot(game)
                      p2 == unwrap(game.player_two)
                      finish(wf) ==
                          IF wf.err # ""
                          THEN wf
                          ELSE [set_game(remove_from_active_games(wf, game_id), game_id, game)
                                   EXCEPT !.ret = Some(game)]
                  IN  IF is_some(winner_addr)
                      THEN LET winner == unwrap(winner_addr)
                               w1 == transfer(w, token_address, Contract, winner, pot)
                               w2 == update_player_stats(w1, game.player_one,
                                                         winner = game.player_one)
                               w3 == update_player_stats(w2, p2, winner = p2)
                           IN  IF w1.err # "" THEN w1
                               ELSE IF w2.err # "" THEN w2
                               ELSE finish(w3)
                      ELSE LET w1 == transfer(w, token_address, Contract,
                                              game.player_one, game.stake_amount)
                               w2 == transfer(w1, token_address, Contract,
                                              p2, game.stake_amount)
                               w3 == increment_draws(w2, game.player_one)
                               w4 == increment_draws(w3, p2)
                           IN  IF w1.err # "" THEN w1
                               ELSE IF w2.err # "" THEN w2
                               ELSE IF w3.err # "" THEN w3
                               ELSE finish(w4)

(* ------------------------- host and history --------------------------- *)
\* The host commits every write of an invocation (storage and ledgers) when
\* it returns normally and none of them when it panics.
host_commit(w0, w) == IF w.err = "" THEN w ELSE [w0 EXCEPT !.err = w.err]

\* The storage and ledgers of a world.
StorageOf(w) == <<w.counter, w.games, w.players, w.active, w.balances>>

\* Sum of the amounts of the transfers xs.
RECURSIVE SumXfers(_)
SumXfers(xs) ==
    IF xs = <<>> THEN 0 ELSE Head(xs).amount + SumXfers(Tail(xs))

PaidIn(xs, t) == SumXfers(SelectSeq(xs, LAMBDA x : x.token = t /\ x.to = Contract))
PaidOut(xs, t) == SumXfers(SelectSeq(xs, LAMBDA x : x.token = t /\ x.from = Contract))

\* History of the committed transfers made on behalf of game g, and of the
\* invocations of finalize_game on g that returned normally.
LogEscrow(g, c, settles) ==
    IF c.err = "" /\ g \in DOMAIN escrowLog
    THEN [escrowLog EXCEPT ![g] =
              [paid_in  |-> [t \in Tokens |-> @.paid_in[t] + PaidIn(c.xfers, t)],
               paid_out |-> [t \in Tokens |-> @.paid_out[t] + PaidOut(c.xfers, t)],
               settled  |-> @.settled + settles]]
    ELSE escrowLog

\* One invocation of the contract: the host commits or discards its world w.
Invoke(op, g, w) ==
    LET c == host_commit(World, w)
    IN  /\ gameCounter' = c.counter
        /\ games' = c.games
        /\ players' = c.players
        /\ activeGames' = c.active
        /\ balances' = c.balances
        /\ escrowLog' = LogEscrow(g, c, IF op = "finalize_game" THEN 1 ELSE 0)
        /\ createLog' = IF op = "create_game" /\ c.err = ""
                        THEN Append(createLog, unwrap(c.ret))
                        ELSE createLog
        /\ last' = [op |-> op, game_id |-> g, err |-> c.err, xfers |-> c.xfers]

\* The slot (1 or 2) player holds in game g, 0 when none.
Slot(g, player) ==
    IF g \notin DOMAIN games THEN 0
    ELSE IF player = games[g].player_one THEN 1
    ELSE IF Some(player) = games[g].player_two THEN 2
    ELSE 0

\* The address in slot i of game g.
Participant(g, i) ==
    IF i = 1 THEN games[g].player_one ELSE unwrap(games[g].player_two)

(* ------------------------------ actions -------------------------------- *)
Init ==
    /\ gameCounter = None
    /\ games = [g \in {} |-> 0]
    /\ players = [a \in {} |-> 0]
    /\ activeGames = <<>>
    /\ balances = [t \in Tokens |-> [h \in Holders |->
                       IF h = Contract THEN 0 ELSE InitBalance]]
    /\ escrowLog = [g \in 1..MaxGames |->
                       [paid_in |-> [t \in Tokens |-> 0],
                        paid_out |-> [t \in Tokens |-> 0],
                        settled |-> 0]]
    /\ commitLog = [g \in 1..MaxGames |->
                       [committed |-> <<FALSE, FALSE>>, salt |-> <<None, None>>]]
    /\ createLog = <<>>
    /\ last = [op |-> "init", game_id |-> 0, err |-> "", xfers |-> <<>>]

RegisterPlayer(addresses) ==
    \E player \in addresses :
        /\ Invoke("register_player", 0, register_player(World, player))
        /\ UNCHANGED commitLog

CreateGame(maxGames, addresses, stakes, tokens) ==
    \E creator \in addresses, stake_amount \in stakes, token_address \in tokens :
        LET w == create_game(World, creator, stake_amount, token_address)
        IN  /\ next_game_id(World) <= maxGames
            /\ Invoke("create_game", IF w.err = "" THEN unwrap(w.ret) ELSE 0, w)
            /\ UNCHANGED commitLog

JoinGame(maxGames, addresses, tokens) ==
    \E game_id \in 1..maxGames, player \in addresses, token_address \in tokens :
        /\ Invoke("join_game", game_id, join_game(World, game_id, player, token_address))
        /\ UNCHANGED commitLog

GetGame(maxGames) ==
    \E game_id \in 1..maxGames :
        /\ Invoke("get_game", game_id, get_game(World, game_id))
        /\ UNCHANGED commitLog

CommitMove(maxGames, addresses, commitments) ==
    \E game_id \in 1..maxGames, player \in addresses, commitment \in commitments :
        LET w == commit_move(World, game_id, player, commitment)
        IN  /\ Invoke("commit_move", game_id, w)
            /\ commitLog' = IF w.err = ""
                            THEN [commitLog EXCEPT
                                    ![game_id].committed[Slot(game_id, player)] = TRUE]
                            ELSE commitLog

RevealMove(maxGames, addresses, moves, salts) ==
    \E game_id \in 1..maxGames, player \in addresses,
       move_choice \in moves, salt \in salts :
        LET w == reveal_move(World, game_id, player, move_choice, salt)
        IN  /\ Invoke("reveal_move", game_id, w)
            /\ commitLog' = IF w.err = ""
                            THEN [commitLog EXCEPT
                                    ![game_id].salt[Slot(game_id, player)] = Some(salt)]
                            ELSE commitLog

FinalizeGame(maxGames, tokens) ==
    \E game_id \in 1..maxGames, token_address \in tokens :
        /\ Invoke("finalize_game", game_id, finalize_game(World, game_id, token_address))
        /\ UNCHANGED commitLog

\* A single game in the first token, played by every address with every input.
SoloTokens == {Min(Tokens)}

Next ==
    \/ RegisterPlayer(Addresses)
    \/ CreateGame(SoloGames, Addresses, StakeChoices, SoloTokens)
    \/ JoinGame(SoloGames, Addresses, SoloTokens)
    \/ GetGame(SoloGames)
    \/ CommitMove(SoloGames, Addresses, CommitChoices)
    \/ RevealMove(SoloGames, Addresses, MoveChoices, Salts)
    \/ FinalizeGame(SoloGames, SoloTokens)

Spec == Init /\ [][Next]_vars

\* Several games in several tokens: the first address creates them at the
\* highest stake, the second joins, and both play two of the moves under
\* one salt.
WideCreators == {Min(Addresses)}
WideJoiners == {Min(Addresses \ WideCreators)}
WideStakes == {MaxStake}
WideMoves == {Attack, Defense}
WideSalts == {0}
WideCommits == {calculate_commitment(m, s) : m \in WideMoves, s \in WideSalts}

NextWide ==
    \/ RegisterPlayer(WideCreators \cup WideJoiners)
    \/ CreateGame(MaxGames, WideCreators, WideStakes, Tokens)
    \/ JoinGame(MaxGames, WideJoiners, Tokens)
    \/ GetGame(MaxGames)
    \/ CommitMove(MaxGames, WideCreators \cup WideJoiners, WideCommits)
    \/ RevealMove(MaxGames, WideCreators \cup WideJoiners, WideMoves, WideSalts)
    \/ FinalizeGame(MaxGames, Tokens)

SpecWide == Init /\ [][NextWide]_vars

(* ------------------------------ claims --------------------------------- *)
Move(g, i) == IF i = 1 THEN games[g].p1_move ELSE games[g].p2_move
Commitment(g, i) == IF i = 1 THEN games[g].p1_commitment ELSE games[g].p2_commitment
Unchanged(w) == StorageOf(host_commit(World, w)) = StorageOf(World)

\* C1: whenever a slot's move is non-zero it is one of 1, 2, 3, the slot's
\* commitment is not the zero value, and the commitment is the one computed
\* from the move and the salt of the reveal_move call that stored the move.
C1_RevealMatchesCommitment ==
    \A g \in DOMAIN games : \A i \in {1, 2} :
        Move(g, i) # 0 =>
            /\ Move(g, i) \in {1, 2, 3}
            /\ Commitment(g, i) # ZeroCommitment
            /\ is_some(commitLog[g].salt[i])
            /\ Commitment(g, i) =
                   calculate_commitment(Move(g, i), unwrap(commitLog[g].salt[i]))

\* A reveal_move has just stored a move under a non-zero salt.
C1_Witness ==
    /\ last.op = "reveal_move" /\ last.err = ""
    /\ \E g \in DOMAIN games : \E i \in {1, 2} :
           Move(g, i) # 0 /\ commitLog[g].salt[i] = Some(1)

\* C2: no move is revealed before both players have committed: a non-zero
\* move in either slot implies both commitments are non-zero, and every
\* reveal_move on a game still WaitingForPlayer fails.
C2_MoveHiding ==
    \A g \in DOMAIN games :
        /\ (games[g].p1_move # 0 \/ games[g].p2_move # 0) =>
               (games[g].p1_commitment # ZeroCommitment
                /\ games[g].p2_commitment # ZeroCommitment)
        /\ games[g].state = WaitingForPlayer =>
               \A player \in Addresses, m \in MoveChoices, s \in Salts :
                   LET w == reveal_move(World, g, player, m, s)
                   IN  w.err = "Not ready for reveals" /\ Unchanged(w)

\* One player has committed, the other has not, and a reveal_move was refused.
C2_Witness ==
    /\ last.op = "reveal_move" /\ last.err = "Not ready for reveals"
    /\ \E g \in DOMAIN games :
           /\ last.game_id = g
           /\ games[g].state = WaitingForPlayer
           /\ games[g].p1_commitment # ZeroCommitment
           /\ games[g].p2_commitment = ZeroCommitment

\* C3: a player who committed to the commitment of (m, S) and reveals
\* (m2, S) with a different move m2 gets the commitment-mismatch failure and
\* nothing changes; the commitments of m and m2 under S differ.
C3_MismatchedRevealRejected ==
    \A g \in DOMAIN games : \A i \in {1, 2} :
        \A m \in Moves, m2 \in Moves, S \in Salts :
            (/\ games[g].state = MovesCommitted
             /\ Commitment(g, i) = calculate_commitment(m, S)
             /\ m2 # m) =>
                LET w == reveal_move(World, g, Participant(g, i), m2, S)
                IN  /\ calculate_commitment(m2, S) # calculate_commitment(m, S)
                    /\ w.err = "Move does not match commitment"
                    /\ Unchanged(w)

\* A reveal was refused for a mismatch and no move is stored in the game.
C3_Witness ==
    /\ last.op = "reveal_move" /\ last.err = "Move does not match commitment"
    /\ \E g \in DOMAIN games :
           /\ last.game_id = g
           /\ games[g].state = MovesCommitted
           /\ games[g].p1_move = 0 /\ games[g].p2_move = 0

\* C4: once a participant's commit_move has succeeded, every later
\* commit_move of that participant on the game, with any commitment value
\* and before the reveal, fails as already committed and leaves the stored
\* commitments as they are.
C4_AtMostOnceCommit ==
    \A g \in DOMAIN games : \A i \in {1, 2} :
        (commitLog[g].committed[i] /\ Move(g, i) = 0) =>
            \A commitment \in CommitChoices :
                LET w == commit_move(World, g, Participant(g, i), commitment)
                IN  /\ w.err = (IF i = 1 THEN "Player 1 already committed"
                                         ELSE "Player 2 already committed")
                    /\ Unchanged(w)


RECURSIVE SumOver(_, _)
\* The sum of f[x] over the x of the finite set S.
SumOver(f, S) ==
    IF S = {} THEN 0
    ELSE LET x == CHOOSE y \in S : TRUE IN f[x] + SumOver(f, S \ {x})

\* Players who have deposited the stake of game g.
Deposited(g) == 1 + (IF is_some(games[g].player_two) THEN 1 ELSE 0)
\* Funds paid in and out for game g so far, over all tokens.
TotalPaidIn(g) == SumOver(escrowLog[g].paid_in, Tokens)
TotalPaidOut(g) == SumOver(escrowLog[g].paid_out, Tokens)
Held(g) == TotalPaidIn(g) - TotalPaidOut(g)
\* What the escrow rule says the contract holds for game g.
Escrow(g) ==
    IF games[g].state = Completed THEN 0 ELSE games[g].stake_amount * Deposited(g)
ContractBalance == SumOver([t \in Tokens |-> balances[t][Contract]], Tokens)

C6_SettledExactlyOnce ==
    \A g \in DOMAIN games :
        /\ escrowLog[g].settled = (IF games[g].state = Completed THEN 1 ELSE 0)
        /\ TotalPaidOut(g) =
              (IF games[g].state = Completed THEN games[g].stake_amount * 2 ELSE 0)
        /\ games[g].state = Completed =>
              \A token_address \in Tokens :
                  LET w == finalize_game(World, g, token_address)
                  IN  /\ w.err = "Game not ready to finalize"
                      /\ w.xfers = <<>>
                      /\ Unchanged(w)

\* A second finalize_game on a settled game was refused while the contract
\* still holds another game's stakes.
C6_Witness ==
    /\ last.op = "finalize_game" /\ last.err = "Game not ready to finalize"
    /\ \E g \in DOMAIN games :
           /\ last.game_id = g
           /\ games[g].state = Completed
           /\ escrowLog[g].settled = 1
           /\ ContractBalance >= games[g].stake_amount * 2

\* The beats-relation: Attack beats Defense, Defense beats Magic, Magic beats Attack.
Beats(a, b) == <<a, b>> \in {<<Attack, Defense>>, <<Defense, Magic>>, <<Magic, Attack>>}

Range(q) == {q[k] : k \in DOMAIN q}

\* C7: when finalize_game succeeds on a game whose revealed moves differ,
\* the player whose move beats the other's becomes the winner and receives a
\* single transfer of twice the stake, the winner's wins and the loser's
\* losses grow by one and no other counter changes, the state becomes
\* Completed and the id leaves ActiveGames.
C7_WinnerTakesPot ==
    \A g \in DOMAIN games, token_address \in Tokens :
        LET w == finalize_game(World, g, token_address)
            game == games[g]
        IN  (w.err = "" /\ game.p1_move # game.p2_move) =>
                LET p1 == game.player_one
                    p2 == unwrap(game.player_two)
                    winner == IF Beats(game.p1_move, game.p2_move) THEN p1 ELSE p2
                    loser == IF winner = p1 THEN p2 ELSE p1
                IN  /\ Beats(game.p1_move, game.p2_move) \/ Beats(game.p2_move, game.p1_move)
                    /\ w.games[g].winner = Some(winner)
                    /\ w.xfers = <<[token |-> token_address, from |-> Contract,
                                    to |-> winner, amount |-> game.stake_amount * 2]>>
                    /\ w.players = [players EXCEPT ![winner].wins = @ + 1,
                                                   ![loser].losses = @ + 1]
                    /\ w.games[g].state = Completed
                    /\ g \in Range(activeGames)
                    /\ g \notin Range(w.active)
                    /\ StorageOf(host_commit(World, w)) = StorageOf(w)

\* A finalize_game has just paid the whole pot to player two, who won with
\* Magic over player one's Attack (a pair the table of determine_winner
\* leaves to its default).
C7_Witness ==
    /\ last.op = "finalize_game" /\ last.err = "" /\ Len(last.xfers) = 1
    /\ \E g \in DOMAIN games :
           /\ last.game_id = g
           /\ games[g].state = Completed
           /\ games[g].p1_move = Attack /\ games[g].p2_move = Magic
           /\ games[g].winner = games[g].player_two
           /\ games[g].stake_amount = MaxStake
           /\ players[unwrap(games[g].player_two)].wins = 1
           /\ players[games[g].player_one].losses = 1

\* C8: when finalize_game succeeds on a game whose revealed moves are equal,
\* each player receives the stake back in a transfer of its own, both
\* players' draws grow by one and no other counter changes, the winner is
\* absent and the state Completed; and in every Completed game the winner is
\* absent exactly when the two moves are equal.
C8_DrawRefundsBoth ==
    \A g \in DOMAIN games :
        /\ games[g].state = Completed =>
              (is_none(games[g].winner) <=> games[g].p1_move = games[g].p2_move)
        /\ \A token_address \in Tokens :
              LET w == finalize_game(World, g, token_address)
                  game == games[g]
              IN  (w.err = "" /\ game.p1_move = game.p2_move) =>
                      LET p1 == game.player_one
                          p2 == unwrap(game.player_two)
                      IN  /\ w.xfers = <<[token |-> token_address, from |-> Contract,
                                          to |-> p1, amount |-> game.stake_amount],
                                         [token |-> token_address, from |-> Contract,
                                          to |-> p2, amount |-> game.stake_amount]>>
                          /\ w.players = [players EXCEPT ![p1].draws = @ + 1,
                                                         ![p2].draws = @ + 1]
                          /\ is_none(w.games[g].winner)
                          /\ w.games[g].state = Completed
                          /\ StorageOf(host_commit(World, w)) = StorageOf(w)

\* A finalize_game has just refunded both players of a game drawn on Magic.
C8_Witness ==
    /\ last.op = "finalize_game" /\ last.err = "" /\ Len(last.xfers) = 2
    /\ \E g \in DOMAIN games :
           /\ last.game_id = g
           /\ games[g].state = Completed
           /\ games[g].p1_move = Magic /\ games[g].p2_move = Magic
           /\ is_none(games[g].winner)
           /\ games[g].stake_amount = MaxStake
           /\ players[games[g].player_one].draws = 1
           /\ players[unwrap(games[g].player_two)].draws = 1

\* C9: finalize_game on a MovesCommitted game in which a move is still 0
\* fails, and the game, the funds, the player counters and ActiveGames stay
\* as they are.
C9_FinalizeNeedsBothReveals ==
    \A g \in DOMAIN games, token_address \in Tokens :
        (/\ games[g].state = MovesCommitted
         /\ (games[g].p1_move = 0 \/ games[g].p2_move = 0)) =>
            LET w == finalize_game(World, g, token_address)
            IN  /\ w.err = (IF games[g].p1_move = 0 THEN "Player 1 hasn't revealed"
                                                    ELSE "Player 2 hasn't revealed")
                /\ Unchanged(w)

\* Player one has revealed, player two has not, and a finalize_game was refused.
C9_Witness ==
    /\ last.op = "finalize_game" /\ last.err = "Player 2 hasn't revealed"
    /\ \E g \in DOMAIN games :
           /\ last.game_id = g
           /\ games[g].state = MovesCommitted
           /\ games[g].p1_move # 0 /\ games[g].p2_move = 0
           /\ is_none(games[g].winner)
           /\ g \in Range(activeGames)
           /\ Held(g) = games[g].stake_amount * 2 /\ Held(g) > 0

\* The token transfer of amount from the holder fails.
TransferFails(token_address, from, amount) ==
    amount < 0 \/ balances[token_address][from] < amount

\* C10: when the token transfer fails inside create_game, join_game or
\* finalize_game (for a draw, the first or the second refund), the call
\* fails and the counter, the games, ActiveGames, the player counters and
\* the funds stay as they are.
C10_FailedTransferChangesNothing ==
    /\ \A creator \in DOMAIN players, stake_amount \in StakeChoices, token_address \in Tokens :
           TransferFails(token_address, creator, stake_amount) =>
               LET w == create_game(World, creator, stake_amount, token_address)
               IN  w.err = "transfer failed" /\ Unchanged(w)
    /\ \A g \in DOMAIN games, player \in DOMAIN players, token_address \in Tokens :
           (/\ games[g].state = WaitingForPlayer
            /\ is_none(games[g].player_two)
            /\ player # games[g].player_one
            /\ TransferFails(token_address, player, games[g].stake_amount)) =>
               LET w == join_game(World, g, player, token_address)
               IN  w.err = "transfer failed" /\ Unchanged(w)
    /\ \A g \in DOMAIN games, token_address \in Tokens :
           (/\ games[g].state = MovesCommitted
            /\ games[g].p1_move > 0 /\ games[g].p2_move > 0
            /\ TransferFails(token_address, Contract, games[g].stake_amount * 2)) =>
               LET w == finalize_game(World, g, token_address)
               IN  w.err = "transfer failed" /\ Unchanged(w)

\* A finalize_game of a drawn game failed although the contract holds one
\* stake in some token: the second refund is the one that fails.
C10_Witness ==
    /\ last.op = "finalize_game" /\ last.err = "transfer failed"
    /\ \E g \in DOMAIN games, t \in Tokens :
           /\ last.game_id = g
           /\ games[g].state = MovesCommitted
           /\ games[g].p1_move > 0 /\ games[g].p1_move = games[g].p2_move
           /\ balances[t][Contract] = games[g].stake_amount
           /\ TransferFails(t, Contract, games[g].stake_amount * 2)
           /\ \A u \in Tokens : TransferFails(u, Contract, games[g].stake_amount * 2)

StateRank(state) ==
    IF state = WaitingForPlayer THEN 0 ELSE IF state = MovesCommitted THEN 1 ELSE 2

\* Every join_game, commit_move, reveal_move and finalize_game on game g fails.
AllCallsFail(g) ==
    /\ \A player \in Addresses, token_address \in Tokens :
           join_game(World, g, player, token_address).err # ""
    /\ \A player \in Addresses, commitment \in CommitChoices :
           commit_move(World, g, player, commitment).err # ""
    /\ \A player \in Addresses, move_choice \in MoveChoices, salt \in Salts :
           reveal_move(World, g, player, move_choice, salt).err # ""
    /\ \A token_address \in Tokens :
           finalize_game(World, g, token_address).err # ""

\* C11: in every step a game's state stays or moves one place forward along
\* WaitingForPlayer, MovesCommitted, Completed; and once a game is Completed
\* every join_game, commit_move, reveal_move and finalize_game on it fails
\* and its record never changes again.
C11_ForwardOnly ==
    [][\A g \in DOMAIN games :
           /\ g \in DOMAIN games'
           /\ StateRank(games'[g].state) - StateRank(games[g].state) \in {0, 1}
           /\ games[g].state = Completed =>
                  (AllCallsFail(g) /\ games'[g] = games[g])]_vars

\* A commit_move on a Completed game has just been refused.
C11_Witness ==
    /\ last.op = "commit_move" /\ last.err # ""
    /\ \E g \in DOMAIN games :
           /\ last.game_id = g
           /\ games[g].state = Completed
           /\ escrowLog[g].settled = 1

\* The existing games that are not Completed.
OpenGames == {g \in DOMAIN games : games[g].state # Completed}

\* C12: in every reachable state the ids listed in ActiveGames are exactly
\* the existing games whose state is not Completed, and no id is listed
\* more than once.
C12_ActiveGamesExact ==
    /\ Range(activeGames) = OpenGames
    /\ Len(activeGames) = Cardinality(Range(activeGames))

\* The second game was finalized while the first is still being played:
\* the list keeps the first id only.
C12_Witness ==
    /\ DOMAIN games = {1, 2}
    /\ games[2].state = Completed
    /\ games[1].state = MovesCommitted
    /\ activeGames = <<1>>
    /\ last.op = "finalize_game" /\ last.err = ""

\* C13: game ids come from a counter that starts at 1 and strictly
\* increases: the k-th successful create_game returns id k, no two game
\* records share an id, every record's id is smaller than the stored
\* counter, and a failed create_game consumes no id (the next id is always
\* one more than the number of successful create_game calls).
C13_IdsFromCounter ==
    /\ \A k \in DOMAIN createLog : createLog[k] = k
    /\ next_game_id(World) = Len(createLog) + 1
    /\ DOMAIN games = Range(createLog)
    /\ \A g, h \in DOMAIN games : games[g].game_id = games[h].game_id => g = h
    /\ \A g \in DOMAIN games :
           /\ games[g].game_id = g
           /\ is_some(gameCounter)
           /\ games[g].game_id < unwrap(gameCounter)
    /\ \A creator \in Addresses, stake_amount \in StakeChoices, token_address \in Tokens :
           LET w == create_game(World, creator, stake_amount, token_address)
           IN  w.err # "" => host_commit(World, w).counter = gameCounter

\* A create_game has just failed on its transfer after the first game was
\* created: the counter still holds 2.
C13_Witness ==
    /\ last.op = "create_game" /\ last.err = "transfer failed"
    /\ createLog = <<1>>
    /\ gameCounter = Some(2)

\* C14: in every reachable state of every game player_two is absent or
\* differs from player_one; a join_game by the game's creator fails and
\* leaves the record and the balances unchanged; and player_one,
\* stake_amount and a player_two that is set never change.
C14_DistinctPlayers ==
    [][\A g \in DOMAIN games :
           /\ is_some(games[g].player_two) =>
                  unwrap(games[g].player_two) # games[g].player_one
           /\ \A token_address \in Tokens :
                  LET w == join_game(World, g, games[g].player_one, token_address)
                      c == host_commit(World, w)
                  IN  /\ w.err # ""
                      /\ c.games[g] = games[g]
                      /\ c.balances = balances
           /\ g \in DOMAIN games'
           /\ games'[g].player_one = games[g].player_one
           /\ games'[g].stake_amount = games[g].stake_amount
           /\ is_some(games[g].player_two) =>
                  games'[g].player_two = games[g].player_two]_vars

\* The creator of a game nobody has joined yet has just tried to join it.
C14_Witness ==
    /\ last.op = "join_game" /\ last.err = "Cannot play against yourself"
    /\ \E g \in DOMAIN games :
           /\ last.game_id = g
           /\ is_none(games[g].player_two)
           /\ balances[Min(Tokens)][games[g].player_one] = InitBalance - games[g].stake_amount

\* The profile of an address that has played nothing.
NewProfile(player) == [address |-> player, wins |-> 0, losses |-> 0, draws |-> 0]

\* C15: register_player on an unregistered address stores and returns a
\* profile with wins = losses = draws = 0; on a registered address it
\* returns the stored profile and changes nothing; and a stored profile
\* changes only in a finalize_game that returns normally.
C15_RegisterIdempotent ==
    [][/\ \A player \in Addresses :
              LET w == register_player(World, player)
              IN  /\ w.err = ""
                  /\ player \notin DOMAIN players =>
                         /\ w.ret = Some(NewProfile(player))
                         /\ DOMAIN w.players = DOMAIN players \cup {player}
                         /\ w.players[player] = NewProfile(player)
                         /\ \A a \in DOMAIN players : w.players[a] = players[a]
                  /\ player \in DOMAIN players =>
                         /\ w.ret = Some(players[player])
                         /\ StorageOf(w) = StorageOf(World)
       /\ \A a \in DOMAIN players :
              /\ a \in DOMAIN players'
              /\ players'[a] # players[a] =>
                     (last'.op = "finalize_game" /\ last'.err = "")
       /\ \A a \in DOMAIN players' \ DOMAIN players :
              /\ last'.op = "register_player"
              /\ players'[a] = NewProfile(a)]_vars

\* Both players of a finished game hold a non-zero counter and one of them
\* has just registered again.
C15_Witness ==
    /\ last.op = "register_player"
    /\ Cardinality(DOMAIN players) = 2
    /\ \E g \in DOMAIN games : games[g].state = Completed
    /\ \A a \in DOMAIN players : players[a].wins + players[a].losses + players[a].draws = 1

\* The move pairs on which determine_winner gives game g to result.
PairsWonBy(g, result) ==
    {pair \in Moves \X Moves : determine_winner(games[g], pair[1], pair[2]) = result}

\* C16: for every game with two players the winner rule is total over the
\* nine move pairs and symmetric under role swap: player one wins on (a, b)
\* iff player two wins on (b, a), equal moves draw, and exactly three pairs
\* are draws, three are wins of player one and three are wins of player two.
C16_WinnerRuleSymmetric ==
    \A g \in DOMAIN games :
        has_second_player(games[g]) =>
            LET p1 == Some(games[g].player_one)
                p2 == games[g].player_two
            IN  /\ \A a, b \in Moves :
                       /\ determine_winner(games[g], a, b) \in {None, p1, p2}
                       /\ determine_winner(games[g], a, b) = p1
                              <=> determine_winner(games[g], b, a) = p2
                       /\ a = b => determine_winner(games[g], a, b) = None
                /\ Cardinality(PairsWonBy(g, None)) = 3
                /\ Cardinality(PairsWonBy(g, p1)) = 3
                /\ Cardinality(PairsWonBy(g, p2)) = 3

\* A game finalized for player one, who played Defense against Magic.
C16_Witness ==
    \E g \in DOMAIN games :
        /\ games[g].state = Completed
        /\ Move(g, 1) = Defense /\ Move(g, 2) = Magic
        /\ games[g].winner = Some(games[g].player_one)
        /\ determine_winner(games[g], Magic, Defense) = games[g].player_two

\* Both commitment slots of a game record are non-zero.
SlotsFilled(game) ==
    game.p1_commitment # ZeroCommitment /\ game.p2_commitment # ZeroCommitment

\* C17: join_game leaves the state at WaitingForPlayer and the state
\* advances to MovesCommitted exactly at the commit_move that makes both
\* slots non-zero: in every reachable state, state is MovesCommitted or
\* Completed iff both p1_commitment and p2_commitment are non-zero.
C17_CommittedIffBothSlots ==
    [][\A g \in DOMAIN games :
           /\ games[g].state \in {MovesCommitted, Completed} <=> SlotsFilled(games[g])
           /\ (last'.op = "join_game" /\ last'.err = "" /\ last'.game_id = g) =>
                  /\ is_none(games[g].player_two) /\ is_some(games'[g].player_two)
                  /\ games'[g].state = WaitingForPlayer
           /\ (games[g].state = WaitingForPlayer /\ games'[g].state # WaitingForPlayer) =>
                  /\ last'.op = "commit_move" /\ last'.err = "" /\ last'.game_id = g
                  /\ games'[g].state = MovesCommitted
                  /\ ~SlotsFilled(games[g]) /\ SlotsFilled(games'[g])
           /\ (last'.op = "commit_move" /\ last'.err = "" /\ last'.game_id = g) =>
                  (games'[g].state = MovesCommitted <=> SlotsFilled(games'[g]))]_vars

\* Two players, one commitment: the commit_move that has just returned left
\* the game waiting.
C17_Witness ==
    /\ last.op = "commit_move" /\ last.err = ""
    /\ \E g \in DOMAIN games :
           /\ last.game_id = g
           /\ is_some(games[g].player_two)
           /\ games[g].p1_commitment = ZeroCommitment
           /\ games[g].p2_commitment # ZeroCommitment
           /\ games[g].state = WaitingForPlayer

\* The ids an invocation may name: those the counter can reach, 0 and one more.
GameIds == 0..(MaxGames + 1)

\* join_game, commit_move, reveal_move and finalize_game on id g all fail
\* with the message msg.
StateChangingCallsFailWith(g, msg) ==
    /\ \A player \in Addresses, token_address \in Tokens :
           join_game(World, g, player, token_address).err = msg
    /\ \A player \in Addresses, commitment \in CommitChoices :
           commit_move(World, g, player, commitment).err = msg
    /\ \A player \in Addresses, move_choice \in MoveChoices, salt \in Salts :
           reveal_move(World, g, player, move_choice, salt).err = msg
    /\ \A token_address \in Tokens :
           finalize_game(World, g, token_address).err = msg

\* commit_move fails on game g for every caller while nobody has joined, and
\* commit_move and reveal_move fail on g for every caller who is neither of
\* its players; none of these calls changes anything.
OutsidersRefused(g) ==
    /\ is_none(games[g].player_two) =>
           \A player \in Addresses, commitment \in CommitChoices :
               LET w == commit_move(World, g, player, commitment)
               IN  w.err = "Waiting for second player" /\ Unchanged(w)
    /\ \A player \in Addresses :
           Slot(g, player) = 0 =>
               /\ \A commitment \in CommitChoices :
                      LET w == commit_move(World, g, player, commitment)
                      IN  w.err # "" /\ Unchanged(w)
               /\ \A move_choice \in MoveChoices, salt \in Salts :
                      LET w == reveal_move(World, g, player, move_choice, salt)
                      IN  w.err # "" /\ Unchanged(w)

\* C18 as stated: commit_move fails and changes nothing while the game has
\* no second player, commit_move and reveal_move fail and change nothing
\* for a caller who is not one of the game's players, and every operation
\* on a game_id with no record fails with the game-not-found error: the
\* four state-changing calls would, and a get_game just made on such an
\* id did.
C18_EveryOperationOnMissingGameFails ==
    \A g \in GameIds :
        /\ g \in DOMAIN games => OutsidersRefused(g)
        /\ g \notin DOMAIN games =>
               /\ StateChangingCallsFailWith(g, "Game not found")
               /\ (last.op = "get_game" /\ last.game_id = g) =>
                      last.err = "Game not found"

\* C18, amended: as above for commit_move and reveal_move; on a game_id with
\* no record join_game, commit_move, reveal_move and finalize_game fail with
\* the game-not-found error and change nothing, while get_game returns None
\* without failing (and changes nothing).
C18_OutsidersAndMissingGames ==
    \A g \in GameIds :
        /\ g \in DOMAIN games => OutsidersRefused(g)
        /\ g \notin DOMAIN games =>
               /\ StateChangingCallsFailWith(g, "Game not found")
               /\ get_game(World, g).err = ""
               /\ get_game(World, g).ret = None
               /\ StorageOf(get_game(World, g)) = StorageOf(World)

\* An address that is neither player of a game with both commitments in
\* has just been refused by reveal_move.
C18_Witness ==
    /\ last.op = "reveal_move" /\ last.err = "Player not in this game"
    /\ \E g \in DOMAIN games :
           /\ last.game_id = g
           /\ games[g].state = MovesCommitted
           /\ \E player \in Addresses : Slot(g, player) = 0

\* The world the next invocation runs in after the invocation that ended in
\* world w: what the host committed, with a fresh return slot and transfer log.
Then(w) == [host_commit(World, w) EXCEPT !.xfers = <<>>, !.ret = None, !.err = ""]

\* What an invocation that ended in world w shows: its outcome, its return
\* value, its transfers, and the storage and ledgers it leaves.
Outcome(w) == <<w.err, w.ret, w.xfers, StorageOf(host_commit(World, w))>>

\* The (move, salt) pairs reveal_move accepts from player in game g now.
ValidReveals(g, player) ==
    {r \in MoveChoices \X Salts : reveal_move(World, g, player, r[1], r[2]).err = ""}

\* C19: reveal order does not matter. From any MovesCommitted state, player
\* one's valid reveal followed by player two's succeeds and yields the same
\* game record (and storage) as the two reveals in the opposite order, and
\* finalize_game after either order has the same outcome: the same winner,
\* the same payouts and the same counter updates.
C19_RevealOrderIrrelevant ==
    \A g \in DOMAIN games :
        games[g].state = MovesCommitted =>
            \A r1 \in ValidReveals(g, Participant(g, 1)),
               r2 \in ValidReveals(g, Participant(g, 2)) :
                LET p1 == Participant(g, 1)
                    p2 == Participant(g, 2)
                    p1_first == reveal_move(Then(reveal_move(World, g, p1, r1[1], r1[2])),
                                            g, p2, r2[1], r2[2])
                    p2_first == reveal_move(Then(reveal_move(World, g, p2, r2[1], r2[2])),
                                            g, p1, r1[1], r1[2])
                IN  /\ p1_first.err = "" /\ p2_first.err = ""
                    /\ p1_first.games[g] = p2_first.games[g]
                    /\ p1_first.games[g].p1_move = r1[1]
                    /\ p1_first.games[g].p2_move = r2[1]
                    /\ StorageOf(p1_first) = StorageOf(p2_first)
                    /\ \A token_address \in Tokens :
                           Outcome(finalize_game(Then(p1_first), g, token_address))
                               = Outcome(finalize_game(Then(p2_first), g, token_address))

\* Both reveals are in, the second has just returned, and finalize_game
\* can now pay player two, who played Attack against Defense.
C19_Witness ==
    /\ last.op = "reveal_move" /\ last.err = ""
    /\ \E g \in DOMAIN games :
           /\ games[g].state = MovesCommitted
           /\ Move(g, 1) = Defense /\ Move(g, 2) = Attack
           /\ \E token_address \in Tokens :
                  LET w == finalize_game(World, g, token_address)
                  IN  w.err = "" /\ w.games[g].winner = games[g].player_two

\* The (move, salt) pair the player in slot i of game g has revealed, None
\* while that player has revealed nothing.
Revealed(g, i) ==
    IF Move(g, i) # 0 /\ is_some(commitLog[g].salt[i])
    THEN Some(<<Move(g, i), unwrap(commitLog[g].salt[i])>>)
    ELSE None

\* C20: no replay of a reveal. Within a game reveal_move never accepts from
\* one player a (move_choice, salt) pair the other player has already
\* revealed in that game, also when that player submitted as commitment the
\* digest seen in the opponent's slot: the two players of a game never hold
\* the same revealed pair.
C20_NoRevealReplay ==
    \A g \in DOMAIN games :
        has_second_player(games[g]) =>
            ~(is_some(Revealed(g, 1)) /\ Revealed(g, 1) = Revealed(g, 2))

\* The stakes deposited in token t for the games that are not yet Completed.
OpenDeposits(t) ==
    SumOver([g \in DOMAIN games |->
                IF games[g].state = Completed THEN 0 ELSE escrowLog[g].paid_in[t]],
            DOMAIN games)

\* C21: for every token the contract's balance in that token is at least
\* the sum of the stakes deposited in that token for the games not yet
\* Completed, and a Completed game has been paid out, token by token,
\* exactly what was deposited for it: finalize_game, whatever token_address
\* it is given, never draws on the funds backing another game.
C21_PerTokenBacking ==
    \A t \in Tokens :
        /\ balances[t][Contract] >= OpenDeposits(t)
        /\ \A g \in DOMAIN games :
               games[g].state = Completed =>
                   escrowLog[g].paid_out[t] = escrowLog[g].paid_in[t]

\* The Completed games in which player is player_one or player_two.
GamesPlayed(player) ==
    {g \in DOMAIN games : games[g].state = Completed /\ Slot(g, player) # 0}

\* C22: for every registered player wins + losses + draws is the number of
\* Completed games the player took part in; over all players the wins sum
\* to the losses, and the draws sum to an even number.
C22_CountersMatchGames ==
    /\ \A a \in DOMAIN players :
           players[a].wins + players[a].losses + players[a].draws
               = Cardinality(GamesPlayed(a))
    /\ SumOver([a \in DOMAIN players |-> players[a].wins], DOMAIN players)
           = SumOver([a \in DOMAIN players |-> players[a].losses], DOMAIN players)
    /\ SumOver([a \in DOMAIN players |-> players[a].draws], DOMAIN players) % 2 = 0

\* Two games are Completed, one drawn and one won: each player holds one
\* draw, one of them a win and the other a loss.
C22_Witness ==
    /\ \A g \in 1..MaxGames : g \in DOMAIN games /\ games[g].state = Completed
    /\ \E a, b \in DOMAIN players :
           /\ players[a] = [address |-> a, wins |-> 1, losses |-> 0, draws |-> 1]
           /\ players[b] = [address |-> b, wins |-> 0, losses |-> 1, draws |-> 1]

====
